---- MODULE Spec2Model ----
(***************************************************************************)
(* A model of src/src/lib.rs: AtomicBorrow, one atomic usize holding a     *)
(* shared-borrow count in its low bits and an exclusive flag in its top    *)
(* bit, and the SharedGuard / UniqueGuard handles built on it.             *)
(*                                                                         *)
(* Every atomic read-modify-write of the word is one step.  The code that  *)
(* runs between two atomic operations of a call touches only locals, so it *)
(* is part of the step of the atomic operation before it.                  *)
(***************************************************************************)
EXTENDS Integers, FiniteSets, Sequences, TLC

\* ------------------------------------------------------------------ bounds
\* Width of the word in bits (usize::BITS in the source, scaled down).
W == 3
\* Threads of the general specification.
NumThreads == 3
\* Threads of the guard specification and of the spinning specification.
GuardThreads == 2
SpinThreads == 2
\* Iterations of the first phase of the spin loops (1 << 10 in the source).
SPIN_COUNT == 2
\* Shared acquisitions the sequential specification makes beyond the
\* largest count.
MaxExtra == 2
\* Guards one thread makes with the constructors that acquire nothing.
MaxNew == 2
\* Threads of the specification of the non-blocking calls.
TryThreads == 2

\* --------------------------------------------------------------- the word
WordMod == 2 ^ W
USIZE_MAX == WordMod - 1

\* Bitwise and of two naturals, bit by bit.
RECURSIVE BitAnd(_, _)
BitAnd(a, b) ==
  IF a = 0 \/ b = 0 THEN 0
  ELSE (a % 2) * (b % 2) + 2 * BitAnd(a \div 2, b \div 2)

\* Bitwise not of a word.
BitNot(a) == USIZE_MAX - a

SHARED_MASK == USIZE_MAX \div 2
UNIQUE_MASK == BitNot(SHARED_MASK)

\* The wrapping atomic read-modify-write operations: the value stored.
fetch_add(w, n) == (w + n) % WordMod
fetch_sub(w, n) == (w + WordMod - n) % WordMod
fetch_and(w, m) == BitAnd(w, m)
compare_exchange_ok(w, current) == w = current

\* The observers, as functions of the value their load returns.
shared_count(w) == BitAnd(w, SHARED_MASK)
\* Mutant of is_unique: true when the exclusive bit is set.
is_unique_as_documented(w) == BitAnd(w, UNIQUE_MASK) # 0

is_unique(w) == BitAnd(w, UNIQUE_MASK) = 0
is_borrowed(w) == w # 0

\* ------------------------------------------------------------------ state
\* Threads of the crowded specification: enough to wrap the word.
CrowdThreads == 2 ^ (W - 1) + 2
Workers == 1 .. NumThreads
GuardWorkers == 1 .. GuardThreads
Spinners == 1 .. SpinThreads
Crowd == 1 .. CrowdThreads
AllThreads == Workers \cup GuardWorkers \cup Spinners \cup Crowd
\* The one thread of the sequential specification.
SeqThread == 1

VARIABLES
  word,      \* AtomicBorrow.borrow
  debug,     \* whether the build has debug_assertions
  aborted,   \* the process aborted (a panic while unwinding)
  pc,        \* per thread: where it is
  call,      \* per thread: the public function it is in
  ret,       \* per thread: what its last completed call returned
  shared,    \* per thread: shared borrows held without a guard
  unique,    \* per thread: exclusive borrows held without a guard
  sguards,   \* per thread: live SharedGuards
  uguards,   \* per thread: live UniqueGuards
  spins,     \* per thread: first-phase iterations of its spin loop done
  nacq,      \* history: successful shared acquisitions
  nrel,      \* history: shared releases
  xacq,      \* history: an exclusive acquisition succeeded
  last,      \* history: the previous atomic operation
  run,       \* history: borrow() calls made so far, if nothing else was called
  script,    \* history: the calls of tests::atomic_borrow the run has made,
             \* and whether it is following the test, has passed it, has
             \* failed an assertion of it, or is off it
  made,      \* history, per thread: guards made by SharedGuard::new and
             \* UniqueGuard::new
  ops,       \* history, per thread: atomic operations on the word its call
             \* in progress, or its last call, has made
  hints      \* history, per thread: the spin_loop hints and the yield_now
             \* calls (two stands for two or more) its spin call in progress,
             \* or its last one, has made

vars == <<word, debug, aborted, pc, call, ret, shared, unique, sguards, uguards,
          spins, nacq, nrel, xacq, last, run, script, made, ops, hints>>
seqhist == <<nacq, nrel, xacq, last, run, script>>
hist == <<seqhist, made, ops, hints>>

NoHints == [spin_loop |-> 0, yield_now |-> 0]
NoLast == [op |-> "none", t |-> 0, pre |-> 0, ret |-> "none"]

\* What a call returned: fn is the function, val is "true" or "false" (Some
\* or None for a guard's try_new), "returned" for a spin function.
Ret(fn, val) == [fn |-> fn, val |-> val]
NoRet == Ret("none", "none")

Init ==
  /\ word = 0
  /\ debug \in BOOLEAN
  /\ aborted = FALSE
  /\ pc = [t \in AllThreads |-> "idle"]
  /\ call = [t \in AllThreads |-> "none"]
  /\ ret = [t \in AllThreads |-> NoRet]
  /\ shared = [t \in AllThreads |-> 0]
  /\ unique = [t \in AllThreads |-> 0]
  /\ sguards = [t \in AllThreads |-> 0]
  /\ uguards = [t \in AllThreads |-> 0]
  /\ spins = [t \in AllThreads |-> 0]
  /\ nacq = 0
  /\ nrel = 0
  /\ xacq = FALSE
  /\ last = NoLast
  /\ run = 0
  /\ script = [at |-> 0, state |-> "following"]
  /\ made = [t \in AllThreads |-> 0]
  /\ ops = [t \in AllThreads |-> 0]
  /\ hints = [t \in AllThreads |-> NoHints]

\* ---------------------------------------------------- AtomicBorrow::borrow
\* Mutants of borrow_outcome: the exclusive bit is not looked at; the
\* overflow is not looked for.
borrow_outcome_unchecked(prev) ==
  IF BitAnd(prev, SHARED_MASK) = SHARED_MASK THEN "panic" ELSE "true"

borrow_outcome_no_overflow(prev) ==
  IF BitAnd(prev, UNIQUE_MASK) # 0 THEN "undo" ELSE "true"

\* What borrow() does after its fetch_add returned prev.
borrow_outcome(prev) ==
  IF BitAnd(prev, SHARED_MASK) = SHARED_MASK THEN "panic"
  ELSE IF BitAnd(prev, UNIQUE_MASK) # 0 THEN "undo"
  ELSE "true"

\* The value borrow()'s fetch_add stores.
borrow_add_value(w) == fetch_add(w, 1)

\* Mutant of borrow_undo_value: the rollback stores what it found.
borrow_undo_value_kept(w) == w

\* The value borrow()'s rollback stores.
borrow_undo_value(w) == fetch_sub(w, 1)

SpinShared == {"spin_borrow", "SharedGuard_spin"}
SpinUnique == {"spin_borrow_mut", "UniqueGuard_spin"}

\* What function c returns when its acquisition succeeded.
RetAcquired(c) ==
  IF c \in SpinShared \cup SpinUnique THEN Ret(c, "returned") ELSE Ret(c, "true")

\* The first atomic step of borrow() called by t from function c: the
\* increment, then the panic, the way to the rollback, or the return of true.
\* kind is where a returned borrow goes: "raw" or "guard".
BorrowAdd(t, c, kind) ==
  LET out == borrow_outcome(word) IN
  /\ word' = borrow_add_value(word)
  /\ call' = [call EXCEPT ![t] = IF out = "undo" THEN c ELSE "none"]
  /\ pc' = [pc EXCEPT ![t] =
              IF out = "panic" THEN "panicked"
              ELSE IF out = "undo" THEN "borrow_undo" ELSE "idle"]
  /\ ret' = [ret EXCEPT ![t] = IF out = "true" THEN RetAcquired(c) ELSE NoRet]
  /\ shared' = [shared EXCEPT ![t] =
                  IF out = "true" /\ kind = "raw" THEN @ + 1 ELSE @]
  /\ sguards' = [sguards EXCEPT ![t] =
                   IF out = "true" /\ kind = "guard" THEN @ + 1 ELSE @]
  /\ UNCHANGED <<debug, aborted, unique, uguards>>

\* borrow() called directly.
borrow(t) ==
  /\ ~aborted
  /\ pc[t] = "idle"
  /\ BorrowAdd(t, "borrow", "raw")
  /\ UNCHANGED spins

\* Mutant of borrow_undo: after the rollback the call is still at its
\* rollback instead of returning.
borrow_undo_again(t) ==
  /\ ~aborted
  /\ pc[t] = "borrow_undo"
  /\ call[t] \in {"borrow", "SharedGuard_try_new"}
  /\ word' = borrow_undo_value(word)
  /\ UNCHANGED <<debug, aborted, pc, call, ret, shared, unique, sguards, uguards, spins>>

\* The rollback of a borrow() that saw the exclusive bit, and its return of
\* false to the caller of borrow() or the None of SharedGuard::try_new.
borrow_undo(t) ==
  /\ ~aborted
  /\ pc[t] = "borrow_undo"
  /\ call[t] \in {"borrow", "SharedGuard_try_new"}
  /\ word' = borrow_undo_value(word)
  /\ pc' = [pc EXCEPT ![t] = "idle"]
  /\ call' = [call EXCEPT ![t] = "none"]
  /\ ret' = [ret EXCEPT ![t] = Ret(call[t], "false")]
  /\ UNCHANGED <<debug, aborted, shared, unique, sguards, uguards, spins>>

\* ------------------------------------------------ AtomicBorrow::borrow_mut
\* Mutant of borrow_mut_ok: only the count bits are compared with 0.
borrow_mut_ok_count_only(w) == shared_count(w) = 0

\* Mutant of borrow_mut_ok: only the exclusive bit is compared with 0.
borrow_mut_ok_unless_unique(w) == BitAnd(w, UNIQUE_MASK) = 0

\* Whether borrow_mut() returns true on a word of w.
borrow_mut_ok(w) == compare_exchange_ok(w, 0)

\* Mutant of borrow_mut_value: every bit is set, not the top one alone.
borrow_mut_value_all_bits(w) == IF compare_exchange_ok(w, 0) THEN USIZE_MAX ELSE w

\* The value borrow_mut()'s compare_exchange leaves in the word.
borrow_mut_value(w) == IF borrow_mut_ok(w) THEN UNIQUE_MASK ELSE w

\* The one atomic step of borrow_mut() called by t from function c.
BorrowMutCas(t, c, kind) ==
  /\ word' = borrow_mut_value(word)
  /\ ret' = [ret EXCEPT ![t] =
               IF borrow_mut_ok(word) THEN RetAcquired(c)
               ELSE IF c \in SpinUnique THEN NoRet ELSE Ret(c, "false")]
  /\ unique' = [unique EXCEPT ![t] =
                  IF borrow_mut_ok(word) /\ kind = "raw" THEN @ + 1 ELSE @]
  /\ uguards' = [uguards EXCEPT ![t] =
                   IF borrow_mut_ok(word) /\ kind = "guard" THEN @ + 1 ELSE @]
  /\ UNCHANGED <<debug, aborted, shared, sguards>>

borrow_mut(t) ==
  /\ ~aborted
  /\ pc[t] = "idle"
  /\ BorrowMutCas(t, "borrow_mut", "raw")
  /\ UNCHANGED <<pc, call, spins>>

\* --------------------------------------------------- AtomicBorrow::release
\* Mutant of release_value: nothing is subtracted.
release_value_kept(w) == w

\* The value release()'s fetch_sub stores.
release_value(w) == fetch_sub(w, 1)

\* Whether release()'s debug assertions hold of the previous value.
release_asserts(prev) == prev # 0 /\ BitAnd(prev, UNIQUE_MASK) = 0

\* A debug assertion fails only in a build that has debug assertions.
AssertFails(ok) == debug /\ ~ok

\* A failed assertion panics; a panic in a thread that is unwinding aborts.
AfterAssert(t, ok) ==
  /\ pc' = [pc EXCEPT ![t] = IF AssertFails(ok) THEN "panicked" ELSE @]
  /\ aborted' = (AssertFails(ok) /\ pc[t] = "panicked")

release(t) ==
  /\ ~aborted
  /\ pc[t] = "idle"
  /\ shared[t] > 0
  /\ word' = release_value(word)
  /\ shared' = [shared EXCEPT ![t] = @ - 1]
  /\ AfterAssert(t, release_asserts(word))
  /\ ret' = [ret EXCEPT ![t] = NoRet]
  /\ UNCHANGED <<debug, call, unique, sguards, uguards, spins>>

\* ----------------------------------------------- AtomicBorrow::release_mut
\* Mutant of release_mut_value: the mask is not inverted.
release_mut_value_unmasked(w) == fetch_and(w, UNIQUE_MASK)

\* Mutant of release_mut_value: the whole word is cleared.
release_mut_value_zeroing(w) == 0

\* The value release_mut()'s fetch_and stores.
release_mut_value(w) == fetch_and(w, BitNot(UNIQUE_MASK))

release_mut_asserts(prev) == BitAnd(prev, UNIQUE_MASK) # 0

release_mut(t) ==
  /\ ~aborted
  /\ pc[t] = "idle"
  /\ unique[t] > 0
  /\ word' = release_mut_value(word)
  /\ unique' = [unique EXCEPT ![t] = @ - 1]
  /\ AfterAssert(t, release_mut_asserts(word))
  /\ ret' = [ret EXCEPT ![t] = NoRet]
  /\ UNCHANGED <<debug, call, shared, sguards, uguards, spins>>

\* ------------------------------------ spin_borrow and spin_borrow_mut
\* Where the borrow of a spin call goes when it returns.
SpinKind(c) == IF c \in {"SharedGuard_spin", "UniqueGuard_spin"} THEN "guard" ELSE "raw"

\* Mutant of spin_next: the counter starts again at SPIN_COUNT, so the for
\* loop never ends.
spin_next_wrapping(i) == IF i + 1 < SPIN_COUNT THEN i + 1 ELSE 0

\* The loop counter after one more failed attempt: the for loop counts up to
\* SPIN_COUNT (spin_loop hint), the while loop after it counts nothing
\* (yield_now).
spin_next(i) == IF i < SPIN_COUNT THEN i + 1 ELSE i

\* What the loops do after a failed attempt when the counter is i: the for
\* loop calls spin_loop, the while loop yield_now.
spin_hint(i) == IF i < SPIN_COUNT THEN "spin_loop" ELSE "yield_now"

\* Entering spin_borrow, spin_borrow_mut or a guard's spin.
SpinEnter(t, c) ==
  /\ ~aborted
  /\ pc[t] = "idle"
  /\ pc' = [pc EXCEPT ![t] = "spin"]
  /\ call' = [call EXCEPT ![t] = c]
  /\ spins' = [spins EXCEPT ![t] = 0]
  /\ ret' = [ret EXCEPT ![t] = NoRet]
  /\ UNCHANGED <<word, debug, aborted, shared, unique, sguards, uguards>>

spin_borrow(t) == SpinEnter(t, "spin_borrow")
spin_borrow_mut(t) == SpinEnter(t, "spin_borrow_mut")

\* One borrow() of the loops of spin_borrow: its increment.
spin_borrow_attempt(t) ==
  /\ ~aborted
  /\ pc[t] = "spin"
  /\ call[t] \in SpinShared
  /\ BorrowAdd(t, call[t], SpinKind(call[t]))
  /\ UNCHANGED spins

\* The rollback of a failed borrow() of the loops, then the hint and the
\* next iteration.
spin_borrow_retry(t) ==
  /\ ~aborted
  /\ pc[t] = "borrow_undo"
  /\ call[t] \in SpinShared
  /\ word' = borrow_undo_value(word)
  /\ pc' = [pc EXCEPT ![t] = "spin"]
  /\ spins' = [spins EXCEPT ![t] = spin_next(@)]
  /\ UNCHANGED <<debug, aborted, call, ret, shared, unique, sguards, uguards>>

\* One borrow_mut() of the loops of spin_borrow_mut.
spin_borrow_mut_attempt(t) ==
  /\ ~aborted
  /\ pc[t] = "spin"
  /\ call[t] \in SpinUnique
  /\ BorrowMutCas(t, call[t], SpinKind(call[t]))
  /\ pc' = [pc EXCEPT ![t] = IF borrow_mut_ok(word) THEN "idle" ELSE "spin"]
  /\ call' = [call EXCEPT ![t] = IF borrow_mut_ok(word) THEN "none" ELSE @]
  /\ spins' = [spins EXCEPT ![t] = IF borrow_mut_ok(word) THEN @ ELSE spin_next(@)]

\* ------------------------------------------------------------ SharedGuard
SharedGuard_try_new(t) ==
  /\ ~aborted
  /\ pc[t] = "idle"
  /\ BorrowAdd(t, "SharedGuard_try_new", "guard")
  /\ UNCHANGED spins

SharedGuard_spin(t) == SpinEnter(t, "SharedGuard_spin")

\* Mutant of SharedGuard_forget: the guard is dropped as well.
SharedGuard_forget_releasing(t) ==
  /\ ~aborted
  /\ pc[t] = "idle"
  /\ sguards[t] > 0
  /\ word' = fetch_sub(word, 1)
  /\ sguards' = [sguards EXCEPT ![t] = @ - 1]
  /\ shared' = [shared EXCEPT ![t] = @ + 1]
  /\ ret' = [ret EXCEPT ![t] = NoRet]
  /\ UNCHANGED <<debug, aborted, pc, call, unique, uguards, spins>>

\* forget(): the guard is gone, its borrow stays with the caller.
SharedGuard_forget(t) ==
  /\ ~aborted
  /\ pc[t] = "idle"
  /\ sguards[t] > 0
  /\ sguards' = [sguards EXCEPT ![t] = @ - 1]
  /\ shared' = [shared EXCEPT ![t] = @ + 1]
  /\ ret' = [ret EXCEPT ![t] = NoRet]
  /\ UNCHANGED <<word, debug, aborted, pc, call, unique, uguards, spins>>

\* Drop: at the end of the guard's scope, or while its thread unwinds.
SharedGuard_drop(t) ==
  /\ ~aborted
  /\ pc[t] \in {"idle", "panicked"}
  /\ sguards[t] > 0
  /\ word' = release_value(word)
  /\ sguards' = [sguards EXCEPT ![t] = @ - 1]
  /\ AfterAssert(t, release_asserts(word))
  /\ ret' = [ret EXCEPT ![t] = NoRet]
  /\ UNCHANGED <<debug, call, shared, unique, uguards, spins>>

\* ------------------------------------------------------------ UniqueGuard
UniqueGuard_try_new(t) ==
  /\ ~aborted
  /\ pc[t] = "idle"
  /\ BorrowMutCas(t, "UniqueGuard_try_new", "guard")
  /\ UNCHANGED <<pc, call, spins>>

UniqueGuard_spin(t) == SpinEnter(t, "UniqueGuard_spin")

UniqueGuard_forget(t) ==
  /\ ~aborted
  /\ pc[t] = "idle"
  /\ uguards[t] > 0
  /\ uguards' = [uguards EXCEPT ![t] = @ - 1]
  /\ unique' = [unique EXCEPT ![t] = @ + 1]
  /\ ret' = [ret EXCEPT ![t] = NoRet]
  /\ UNCHANGED <<word, debug, aborted, pc, call, shared, sguards, spins>>

UniqueGuard_drop(t) ==
  /\ ~aborted
  /\ pc[t] \in {"idle", "panicked"}
  /\ uguards[t] > 0
  /\ word' = release_mut_value(word)
  /\ uguards' = [uguards EXCEPT ![t] = @ - 1]
  /\ AfterAssert(t, release_mut_asserts(word))
  /\ ret' = [ret EXCEPT ![t] = NoRet]
  /\ UNCHANGED <<debug, call, shared, unique, sguards, spins>>

\* ------------------------------------ SharedGuard::new, UniqueGuard::new
\* The safe constructors: a guard is made, the AtomicBorrow is not touched.
SharedGuard_new(t) ==
  /\ ~aborted
  /\ pc[t] = "idle"
  /\ sguards' = [sguards EXCEPT ![t] = @ + 1]
  /\ ret' = [ret EXCEPT ![t] = Ret("SharedGuard_new", "returned")]
  /\ UNCHANGED <<word, debug, aborted, pc, call, shared, unique, uguards, spins>>

UniqueGuard_new(t) ==
  /\ ~aborted
  /\ pc[t] = "idle"
  /\ uguards' = [uguards EXCEPT ![t] = @ + 1]
  /\ ret' = [ret EXCEPT ![t] = Ret("UniqueGuard_new", "returned")]
  /\ UNCHANGED <<word, debug, aborted, pc, call, shared, unique, sguards, spins>>

\* ---------------------------------------------------------- specification
\* The general specification: every thread calls borrow, borrow_mut and the
\* releases in any order, releasing only what it holds.
Next ==
  \/ \E t \in Workers : borrow(t) /\ UNCHANGED hist
  \/ \E t \in Workers : borrow_undo(t) /\ UNCHANGED hist
  \/ \E t \in Workers : borrow_mut(t) /\ UNCHANGED hist
  \/ \E t \in Workers : release(t) /\ UNCHANGED hist
  \/ \E t \in Workers : release_mut(t) /\ UNCHANGED hist

Spec == Init /\ [][Next]_vars

\* The guard specification: every thread acquires through the guards' try_new
\* and gives back by a drop, or by forget and a later release.
NextGuard ==
  \/ \E t \in GuardWorkers : borrow_undo(t) /\ UNCHANGED hist
  \/ \E t \in GuardWorkers : release(t) /\ UNCHANGED hist
  \/ \E t \in GuardWorkers : release_mut(t) /\ UNCHANGED hist
  \/ \E t \in GuardWorkers : SharedGuard_try_new(t) /\ UNCHANGED hist
  \/ \E t \in GuardWorkers : SharedGuard_forget(t) /\ UNCHANGED hist
  \/ \E t \in GuardWorkers : SharedGuard_drop(t) /\ UNCHANGED hist
  \/ \E t \in GuardWorkers : UniqueGuard_try_new(t) /\ UNCHANGED hist
  \/ \E t \in GuardWorkers : UniqueGuard_forget(t) /\ UNCHANGED hist
  \/ \E t \in GuardWorkers : UniqueGuard_drop(t) /\ UNCHANGED hist

SpecGuard == Init /\ [][NextGuard]_vars

\* The spinning specification: every thread that holds nothing acquires
\* through a spin function, and releases what it holds or drops its guard.
\* hints records what the loops do after each failed attempt.
HoldsNothing(t) == shared[t] + unique[t] + sguards[t] + uguards[t] = 0

SpinBegins(t) ==
  /\ HoldsNothing(t)
  /\ hints' = [hints EXCEPT ![t] = NoHints]
  /\ UNCHANGED <<seqhist, made, ops>>

SpinHints(t, failed) ==
  /\ hints' = [hints EXCEPT ![t] =
                 IF ~failed THEN @
                 ELSE IF spin_hint(spins[t]) = "spin_loop"
                   THEN [@ EXCEPT !.spin_loop = @ + 1]
                 ELSE [@ EXCEPT !.yield_now = IF @ < 2 THEN @ + 1 ELSE @]]
  /\ UNCHANGED <<seqhist, made, ops>>

\* The steps of the loops with their hints.
SpinAttempt(t) == spin_borrow_attempt(t) /\ SpinHints(t, FALSE)
SpinRetry(t) == spin_borrow_retry(t) /\ SpinHints(t, TRUE)
SpinAttemptMut(t) == spin_borrow_mut_attempt(t) /\ SpinHints(t, ~borrow_mut_ok(word))

NextSpin ==
  \/ \E t \in Spinners : release(t) /\ UNCHANGED hist
  \/ \E t \in Spinners : release_mut(t) /\ UNCHANGED hist
  \/ \E t \in Spinners : SharedGuard_drop(t) /\ UNCHANGED hist
  \/ \E t \in Spinners : UniqueGuard_drop(t) /\ UNCHANGED hist
  \/ \E t \in Spinners : spin_borrow(t) /\ SpinBegins(t)
  \/ \E t \in Spinners : spin_borrow_mut(t) /\ SpinBegins(t)
  \/ \E t \in Spinners : SharedGuard_spin(t) /\ SpinBegins(t)
  \/ \E t \in Spinners : UniqueGuard_spin(t) /\ SpinBegins(t)
  \/ \E t \in Spinners : SpinAttempt(t)
  \/ \E t \in Spinners : SpinRetry(t)
  \/ \E t \in Spinners : SpinAttemptMut(t)

SpecSpin == Init /\ [][NextSpin]_vars

\* The crowded specification: more threads than the count bits can count,
\* each holding at most one borrow, calling the plain functions only.
NextCrowd ==
  \/ \E t \in Crowd : shared[t] + unique[t] = 0 /\ borrow(t) /\ UNCHANGED hist
  \/ \E t \in Crowd : borrow_undo(t) /\ UNCHANGED hist
  \/ \E t \in Crowd : shared[t] + unique[t] = 0 /\ borrow_mut(t) /\ UNCHANGED hist
  \/ \E t \in Crowd : release(t) /\ UNCHANGED hist
  \/ \E t \in Crowd : release_mut(t) /\ UNCHANGED hist

SpecCrowd == Init /\ [][NextCrowd]_vars

\* The constructor specification: every thread makes guards with try_new and,
\* up to MaxNew of them, with the safe constructors, and drops them.
NextNew ==
  \/ \E t \in GuardWorkers :
       /\ made[t] < MaxNew
       /\ SharedGuard_new(t)
       /\ made' = [made EXCEPT ![t] = @ + 1]
       /\ UNCHANGED <<seqhist, ops, hints>>
  \/ \E t \in GuardWorkers :
       /\ made[t] < MaxNew
       /\ UniqueGuard_new(t)
       /\ made' = [made EXCEPT ![t] = @ + 1]
       /\ UNCHANGED <<seqhist, ops, hints>>
  \/ \E t \in GuardWorkers : borrow_undo(t) /\ UNCHANGED hist
  \/ \E t \in GuardWorkers : SharedGuard_try_new(t) /\ UNCHANGED hist
  \/ \E t \in GuardWorkers : SharedGuard_drop(t) /\ UNCHANGED hist
  \/ \E t \in GuardWorkers : UniqueGuard_try_new(t) /\ UNCHANGED hist
  \/ \E t \in GuardWorkers : UniqueGuard_drop(t) /\ UNCHANGED hist

SpecNew == Init /\ [][NextNew]_vars

\* The specification of the non-blocking calls: the general specification,
\* counting in ops the atomic operations each call makes on the word.
\* Callers are its threads; Caller is the one whose steps are taken fairly.
Callers == 1 .. TryThreads
Caller == SeqThread

\* A call of t begins with this operation; its call goes on with this one.
FirstOp(t) == ops' = [ops EXCEPT ![t] = 1] /\ UNCHANGED <<seqhist, made, hints>>
NextOp(t) == ops' = [ops EXCEPT ![t] = @ + 1] /\ UNCHANGED <<seqhist, made, hints>>

\* The step by which a borrow() of t that is under way goes on.
TryContinue(t) == borrow_undo(t) /\ NextOp(t)

NextTry ==
  \/ \E t \in Callers : borrow(t) /\ FirstOp(t)
  \/ \E t \in Callers : TryContinue(t)
  \/ \E t \in Callers : borrow_mut(t) /\ FirstOp(t)
  \/ \E t \in Callers : release(t) /\ FirstOp(t)
  \/ \E t \in Callers : release_mut(t) /\ FirstOp(t)

\* Only the caller is scheduled fairly: the other threads may stop anywhere.
SpecTry == Init /\ [][NextTry]_vars /\ WF_vars(TryContinue(Caller))

\* The re-entering specification: every thread calls the plain functions and
\* the spin functions in any order, the caller also while it holds one
\* borrow, the other threads while they hold none.
Reenters(t) == shared[t] + unique[t] < (IF t = Caller THEN 2 ELSE 1)

NextReentry ==
  \/ \E t \in Callers : Reenters(t) /\ borrow(t) /\ UNCHANGED hist
  \/ \E t \in Callers : borrow_undo(t) /\ UNCHANGED hist
  \/ \E t \in Callers : Reenters(t) /\ borrow_mut(t) /\ UNCHANGED hist
  \/ \E t \in Callers : release(t) /\ UNCHANGED hist
  \/ \E t \in Callers : release_mut(t) /\ UNCHANGED hist
  \/ \E t \in Callers : Reenters(t) /\ spin_borrow(t) /\ UNCHANGED hist
  \/ \E t \in Callers : Reenters(t) /\ spin_borrow_mut(t) /\ UNCHANGED hist
  \/ \E t \in Callers : spin_borrow_attempt(t) /\ UNCHANGED hist
  \/ \E t \in Callers : spin_borrow_retry(t) /\ UNCHANGED hist
  \/ \E t \in Callers : spin_borrow_mut_attempt(t) /\ UNCHANGED hist

SpecReentry == Init /\ [][NextReentry]_vars

\* ------------------------------------------- the sequential specification
\* tests::atomic_borrow: the calls in order, with what each is asserted to
\* return ("none" for a call that returns nothing).
tests_atomic_borrow ==
  << [op |-> "borrow", ret |-> "true"],
     [op |-> "borrow", ret |-> "true"],
     [op |-> "borrow_mut", ret |-> "false"],
     [op |-> "release", ret |-> "none"],
     [op |-> "release", ret |-> "none"],
     [op |-> "borrow_mut", ret |-> "true"],
     [op |-> "borrow", ret |-> "false"],
     [op |-> "release_mut", ret |-> "none"] >>

\* The history after a step of thread t inside function fn.
Track(t, fn) ==
  LET done == pc'[t] # "borrow_undo" IN
  /\ UNCHANGED <<made, ops, hints>>
  /\ last' = [op |-> IF done THEN fn ELSE "borrow_add", t |-> t, pre |-> word,
              ret |-> ret'[t].val]
  /\ nacq' = IF fn = "borrow" /\ ret'[t].val = "true" THEN nacq + 1 ELSE nacq
  /\ nrel' = IF fn = "release" THEN nrel + 1 ELSE nrel
  /\ xacq' = (xacq \/ (fn = "borrow_mut" /\ ret'[t].val = "true"))
  /\ run' = IF run >= 0 /\ fn = "borrow" /\ pc[t] = "idle" /\ done
            THEN run + 1 ELSE -1
  /\ script' =
       IF script.state = "failed" THEN script
       ELSE IF script.state # "following" THEN [script EXCEPT !.state = "off"]
       ELSE LET e == tests_atomic_borrow[script.at + 1] IN
            IF fn # e.op THEN [script EXCEPT !.state = "off"]
            ELSE IF ~done THEN script
            ELSE IF pc'[t] = "panicked" \/ ret'[t].val # e.ret
              THEN [script EXCEPT !.state = "failed"]
            ELSE [at |-> script.at + 1,
                  state |-> IF script.at + 1 = Len(tests_atomic_borrow)
                            THEN "passed" ELSE "following"]

\* One thread calls the plain functions one after the other.
NextSeq ==
  \/ /\ nacq < SHARED_MASK + MaxExtra
     /\ borrow(SeqThread)
     /\ Track(SeqThread, "borrow")
  \/ borrow_undo(SeqThread) /\ Track(SeqThread, "borrow")
  \/ borrow_mut(SeqThread) /\ Track(SeqThread, "borrow_mut")
  \/ release(SeqThread) /\ Track(SeqThread, "release")
  \/ release_mut(SeqThread) /\ Track(SeqThread, "release_mut")

SpecSeq == Init /\ [][NextSeq]_vars

\* The recording specification: the general specification for the calling
\* threads, recording in last each step, the word it found and what it
\* returned.
Record(t, fn) ==
  /\ last' = [op |-> fn, t |-> t, pre |-> word, ret |-> ret'[t].val]
  /\ UNCHANGED <<nacq, nrel, xacq, run, script, made, ops, hints>>

NextRecord ==
  \/ \E t \in Callers : borrow(t) /\ Record(t, "borrow")
  \/ \E t \in Callers : borrow_undo(t) /\ Record(t, "borrow_undo")
  \/ \E t \in Callers : borrow_mut(t) /\ Record(t, "borrow_mut")
  \/ \E t \in Callers : release(t) /\ Record(t, "release")
  \/ \E t \in Callers : release_mut(t) /\ Record(t, "release_mut")

SpecRecord == Init /\ [][NextRecord]_vars

\* The waiting specification: the caller, holding nothing, enters a spin
\* function, and releases what it got; the other threads call the plain
\* functions, each holding at most one borrow.  Every step that continues a
\* call or gives a borrow back is taken under weak fairness; no thread is
\* made to begin a call.
Others == Spinners \ {Caller}

NextWait ==
  \/ spin_borrow(Caller) /\ SpinBegins(Caller)
  \/ spin_borrow_mut(Caller) /\ SpinBegins(Caller)
  \/ SpinAttempt(Caller)
  \/ SpinRetry(Caller)
  \/ SpinAttemptMut(Caller)
  \/ release(Caller) /\ UNCHANGED hist
  \/ release_mut(Caller) /\ UNCHANGED hist
  \/ \E u \in Others : HoldsNothing(u) /\ borrow(u) /\ UNCHANGED hist
  \/ \E u \in Others : borrow_undo(u) /\ UNCHANGED hist
  \/ \E u \in Others : HoldsNothing(u) /\ borrow_mut(u) /\ UNCHANGED hist
  \/ \E u \in Others : release(u) /\ UNCHANGED hist
  \/ \E u \in Others : release_mut(u) /\ UNCHANGED hist

FairWait ==
  /\ WF_vars(SpinAttempt(Caller))
  /\ WF_vars(SpinRetry(Caller))
  /\ WF_vars(SpinAttemptMut(Caller))
  /\ \A u \in Others : WF_vars(borrow_undo(u) /\ UNCHANGED hist)
  /\ \A u \in Others : WF_vars(release(u) /\ UNCHANGED hist)
  /\ \A u \in Others : WF_vars(release_mut(u) /\ UNCHANGED hist)

SpecWait == Init /\ [][NextWait]_vars /\ FairWait

\* ------------------------------------------------- what the claims speak of
\* The top bit and the low bits of a word, by arithmetic.
ExclusiveBit(w) == (w \div 2 ^ (W - 1)) % 2 = 1
CountBits(w) == w % 2 ^ (W - 1)

RECURSIVE SumTo(_, _)
SumTo(f, n) == IF n = 0 THEN 0 ELSE f[n] + SumTo(f, n - 1)
Total(f) == SumTo(f, Cardinality(AllThreads))

\* Borrows held: acquired by a call that returned, not yet released.
SharedHeld == Total(shared) + Total(sguards)
UniqueHeld == Total(unique) + Total(uguards)
\* borrow() calls between their increment and their rollback.
InFlight == Cardinality({t \in AllThreads : pc[t] = "borrow_undo"})
\* No call has panicked: the count has not overflowed, no assertion failed.
NoPanic == \A t \in AllThreads : pc[t] # "panicked"

\* C1: at most one thread holds an exclusive borrow, and no thread holds a
\* shared borrow while a thread holds an exclusive one, whatever the number
\* of threads.
C1_MutualExclusion ==
  /\ UniqueHeld <= 1
  /\ UniqueHeld > 0 => SharedHeld = 0

\* C2 as stated: whenever the exclusive bit of the word is set, its count
\* bits are all zero.
C2_I1OnTheWord == ExclusiveBit(word) => shared_count(word) = 0

\* C2 as amended: until a call panics, whenever the exclusive bit is set no
\* shared borrow is held, and the count bits count exactly the borrow()
\* calls that have incremented the word and not yet rolled back.
C2_I1UpToInFlight ==
  NoPanic /\ ExclusiveBit(word) =>
    /\ SharedHeld = 0
    /\ shared_count(word) = InFlight

\* An exclusive borrow is held and two failed borrow() calls are in flight.
C2_Witness ==
  /\ NoPanic
  /\ UniqueHeld = 1
  /\ ExclusiveBit(word)
  /\ InFlight = 2
  /\ shared_count(word) = 2

\* What a borrow_mut step of thread t does to the word and returns.
C3_BorrowMutStep(t) ==
  borrow_mut(t) =>
    /\ (ret'[t] = Ret("borrow_mut", "true")) <=> (word = 0)
    /\ (ret'[t] = Ret("borrow_mut", "false")) <=> (word # 0)
    /\ word = 0 => word' = 2 ^ (W - 1)
    /\ word # 0 => word' = word

\* C3: borrow_mut returns true iff the word was exactly 0 at its
\* compare-and-swap; then the word becomes the exclusive bit alone; on any
\* other word it returns false and leaves the word as it was.
C3_BorrowMut == [][\A t \in Workers : C3_BorrowMutStep(t)]_vars

\* One thread's borrow_mut returned true, another's returned false on the
\* word the first left.
C3_Witness ==
  \E t, u \in AllThreads :
    /\ ret[t] = Ret("borrow_mut", "true")
    /\ unique[t] = 1
    /\ ret[u] = Ret("borrow_mut", "false")
    /\ word = 2 ^ (W - 1)

\* What the steps of a borrow() of thread t do, and what the word holds.
C4_BorrowStep(t) ==
  /\ borrow(t) /\ CountBits(word) # 2 ^ (W - 1) - 1 =>
       /\ word' = (word + 1) % 2 ^ W
       /\ ExclusiveBit(word) =>
            pc'[t] = "borrow_undo" /\ call'[t] = "borrow" /\ ret'[t] = NoRet
       /\ ~ExclusiveBit(word) =>
            pc'[t] = "idle" /\ ret'[t] = Ret("borrow", "true")
  /\ borrow_undo(t) /\ call[t] = "borrow" =>
       /\ word' = (word + 2 ^ W - 1) % 2 ^ W
       /\ pc'[t] = "idle"
       /\ ret'[t] = Ret("borrow", "false")
  /\ ret'[t] = Ret("borrow", "false") /\ ret[t] # ret'[t] =>
       pc[t] = "borrow_undo" /\ call[t] = "borrow"

C4_NetZero ==
  NoPanic => word = 2 ^ (W - 1) * UniqueHeld + SharedHeld + InFlight

\* C4: absent overflow, borrow returns false exactly when the word it
\* incremented had the exclusive bit set, and true otherwise; the call that
\* returns false has incremented the word once and decremented it once, and
\* until a call panics the word holds nothing of the calls that returned
\* false.
C4_Borrow ==
  /\ []C4_NetZero
  /\ [][\A t \in Workers : C4_BorrowStep(t)]_vars

\* A borrow() has returned false while another thread holds the exclusive
\* borrow, and the word is the exclusive bit alone again.
C4_Witness ==
  \E t, u \in AllThreads :
    /\ ret[t] = Ret("borrow", "false")
    /\ pc[t] = "idle"
    /\ unique[u] = 1
    /\ word = 2 ^ (W - 1)

\* C5: in a sequence of shared acquisitions and releases with no exclusive
\* acquisition, after k successful acquisitions and j releases shared_count
\* is k - j and is_borrowed is true iff k > j.
C5_SharedCount ==
  ~xacq /\ pc[SeqThread] # "panicked" =>
    /\ shared_count(word) = nacq - nrel
    /\ is_borrowed(word) <=> nacq > nrel

\* The largest count has been reached, and releases were made.
C5_Witness ==
  /\ ~xacq
  /\ pc[SeqThread] = "idle"
  /\ nacq = 2 ^ (W - 1) + 1
  /\ nrel = 3
  /\ shared_count(word) = 2 ^ (W - 1) - 2

\* A release right after its acquisition; the end of the test.
C6_RoundTripStep ==
  /\ last.op = "borrow" /\ last.ret = "true" /\ last'.op = "release" =>
       word' = last.pre
  /\ last.op = "borrow_mut" /\ last.ret = "true" /\ last'.op = "release_mut" =>
       word' = last.pre

C6_Test ==
  /\ script.state # "failed"
  /\ script.state = "passed" => word = 0

\* C6: a successful acquisition followed at once by the matching release
\* leaves the word as it was before the acquisition; tests::atomic_borrow
\* passes its assertions and ends with the word 0.
C6_RoundTrip ==
  /\ []C6_Test
  /\ [][C6_RoundTripStep]_vars

\* tests::atomic_borrow has run to its end.
C6_Witness ==
  /\ script.state = "passed"
  /\ script.at = Len(tests_atomic_borrow)
  /\ last.op = "release_mut"

\* borrow() calls in a row from the free word; a step that wraps the count.
C7_Run ==
  /\ run \in 0 .. 2 ^ (W - 1) - 1 =>
       /\ pc[SeqThread] = "idle"
       /\ nacq = run
       /\ word = run
       /\ run > 0 => ret[SeqThread] = Ret("borrow", "true")
  /\ run = 2 ^ (W - 1) =>
       /\ pc[SeqThread] = "panicked"
       /\ ret[SeqThread] = NoRet
       /\ nacq = 2 ^ (W - 1) - 1
  /\ run <= 2 ^ (W - 1)

C7_NoSilentWrapStep(t) ==
  borrow(t) /\ CountBits(word') < CountBits(word) => pc'[t] = "panicked"

\* C7: from the free state 2^(W-1) - 1 borrow() calls in a row all return
\* true; the next one panics, returning neither true nor false; and no
\* borrow() lets the count bits wrap without panicking.
C7_Overflow ==
  /\ []C7_Run
  /\ [][\A t \in AllThreads : C7_NoSilentWrapStep(t)]_vars

\* The call after the last that fits has been made.
C7_Witness == run = 2 ^ (W - 1) /\ pc[SeqThread] = "panicked"

C9_IsUniqueAsDocumented == is_unique(word) <=> UniqueHeld > 0

\* What the guard functions of thread t do to the word and the guards.
C10_GuardStep(t) ==
  /\ SharedGuard_try_new(t) =>
       /\ word' = (word + 1) % 2 ^ W
       /\ (sguards'[t] = sguards[t] + 1) <=>
            (~ExclusiveBit(word) /\ CountBits(word) # 2 ^ (W - 1) - 1)
       /\ (sguards'[t] = sguards[t] + 1) <=>
            (ret'[t] = Ret("SharedGuard_try_new", "true"))
       /\ sguards'[t] = sguards[t] =>
            pc'[t] \in {"borrow_undo", "panicked"} /\ ret'[t] = NoRet
  /\ borrow_undo(t) /\ call[t] = "SharedGuard_try_new" =>
       /\ word' = (word + 2 ^ W - 1) % 2 ^ W
       /\ ret'[t] = Ret("SharedGuard_try_new", "false")
       /\ sguards'[t] = sguards[t]
  /\ UniqueGuard_try_new(t) =>
       /\ (uguards'[t] = uguards[t] + 1) <=> (word = 0)
       /\ (uguards'[t] = uguards[t] + 1) <=>
            (ret'[t] = Ret("UniqueGuard_try_new", "true"))
       /\ uguards'[t] = uguards[t] =>
            word' = word /\ ret'[t] = Ret("UniqueGuard_try_new", "false")
  /\ SharedGuard_drop(t) =>
       /\ word' = (word + 2 ^ W - 1) % 2 ^ W
       /\ sguards'[t] = sguards[t] - 1
  /\ UniqueGuard_drop(t) =>
       /\ word' = CountBits(word)
       /\ uguards'[t] = uguards[t] - 1
  /\ SharedGuard_forget(t) =>
       word' = word /\ sguards'[t] = sguards[t] - 1
  /\ UniqueGuard_forget(t) =>
       word' = word /\ uguards'[t] = uguards[t] - 1

\* C10: a guard's try_new makes a guard iff its acquisition succeeded, and
\* without a guard leaves the word as it found it; a drop is one release of
\* the guard's kind; forget releases nothing.
C10_GuardLifecycle == [][\A t \in GuardWorkers : C10_GuardStep(t)]_vars

\* A SharedGuard::try_new has returned None, a guard was forgotten and the
\* word holds the forgotten borrow alone.
C10_Witness ==
  \E t, u \in AllThreads :
    /\ ret[t] = Ret("SharedGuard_try_new", "false")
    /\ shared[u] = 1
    /\ SharedHeld = 1
    /\ UniqueHeld = 0
    /\ word = 1

\* C11: every guard is backed by an acquisition: until a call panics, the
\* live SharedGuards are no more than the shared count of the word, and a
\* live UniqueGuard means the exclusive bit is set.
C11_GuardsBacked ==
  NoPanic =>
    /\ Total(sguards) <= shared_count(word)
    /\ Total(uguards) > 0 => ExclusiveBit(word)

\* The atomic operations a try call has made, by where it is and by what it
\* returned.
C12_OpsBound ==
  \A t \in Callers :
    /\ ops[t] <= 2
    /\ pc[t] = "borrow_undo" => ops[t] = 1
    /\ ret[t] = Ret("borrow", "true") => ops[t] = 1
    /\ ret[t] = Ret("borrow", "false") => ops[t] = 2
    /\ ret[t].fn = "borrow_mut" => ops[t] = 1

\* Each step of a try call ends the call or leaves it at its rollback, and
\* the rollback ends it: nothing leads back to the increment.
C12_NoRetryStep(t) ==
  /\ borrow(t) =>
       /\ pc'[t] \in {"idle", "borrow_undo", "panicked"}
       /\ pc'[t] = "idle" <=> ret'[t] = Ret("borrow", "true")
  /\ borrow_undo(t) =>
       pc'[t] = "idle" /\ ret'[t] = Ret("borrow", "false")
  /\ borrow_mut(t) =>
       pc'[t] = "idle" /\ ret'[t].fn = "borrow_mut" /\ ret'[t].val \in {"true", "false"}

\* C12: a borrow() ends after at most two atomic operations of its own (one
\* fetch_add, at most one fetch_sub) and a borrow_mut() after exactly one,
\* whatever the word holds and the other threads do; neither retries; and
\* with the caller alone scheduled fairly, its call under way ends.
C12_NonBlocking ==
  /\ []C12_OpsBound
  /\ [][\A t \in Callers : C12_NoRetryStep(t)]_vars
  /\ (pc[Caller] = "borrow_undo" ~> pc[Caller] = "idle")

\* The caller's borrow() has returned false after two operations while the
\* other thread, holding the exclusive borrow, is stopped.
C12_Witness ==
  \E u \in Callers :
    /\ unique[u] = 1
    /\ ret[Caller] = Ret("borrow", "false")
    /\ ops[Caller] = 2
    /\ pc[Caller] = "idle"

\* Thread t is inside a spin function for a borrow that is incompatible with
\* one it holds itself.
C13_SpinsOnItself(t) ==
  /\ pc[t] \in {"spin", "borrow_undo"}
  /\ \/ call[t] \in SpinUnique /\ shared[t] + unique[t] > 0
     \/ call[t] \in SpinShared /\ unique[t] > 0

\* What an acquisition step of t does when t itself holds an incompatible
\* borrow.
C13_ReentryStep(t) ==
  /\ borrow_mut(t) /\ shared[t] + unique[t] > 0 =>
       /\ ret'[t] = Ret("borrow_mut", "false")
       /\ unique'[t] = unique[t]
       /\ word' = word
  /\ borrow(t) /\ unique[t] > 0 =>
       /\ pc'[t] = "borrow_undo"
       /\ shared'[t] = shared[t]
  /\ borrow_undo(t) /\ unique[t] > 0 =>
       /\ ret'[t] = Ret("borrow", "false")
       /\ shared'[t] = shared[t]
  /\ C13_SpinsOnItself(t) =>
       /\ C13_SpinsOnItself(t)'
       /\ ret'[t] = NoRet
       /\ shared'[t] = shared[t]
       /\ unique'[t] = unique[t]

\* C13: while a thread holds a borrow, an incompatible acquisition by that
\* thread does not succeed: borrow_mut returns false when the thread holds a
\* shared or an exclusive borrow, borrow returns false when it holds the
\* exclusive one, and a spin function entered for such a borrow is never
\* left.
C13_NoReentrancy == [][\A t \in Callers : C13_ReentryStep(t)]_vars

\* A thread holding the exclusive borrow is in spin_borrow past the first
\* phase of the loop, and the other is in spin_borrow_mut holding nothing.
C13_Witness ==
  \E t, u \in Callers :
    /\ unique[t] = 1
    /\ pc[t] = "spin"
    /\ call[t] = "spin_borrow"
    /\ spins[t] = SPIN_COUNT
    /\ pc[u] = "spin"
    /\ call[u] = "spin_borrow_mut"
    /\ shared[u] + unique[u] = 0

\* The hints of a spin call: spin_loop at most SPIN_COUNT times, yield_now
\* only after that; and what a thread holds when its spin call has returned.
C14_Policy ==
  \A t \in Spinners :
    /\ hints[t].spin_loop <= SPIN_COUNT
    /\ hints[t].yield_now > 0 => hints[t].spin_loop = SPIN_COUNT
    /\ ret[t].val = "returned" =>
         /\ pc[t] = "idle"
         /\ shared[t] = (IF ret[t].fn = "spin_borrow" THEN 1 ELSE 0)
         /\ sguards[t] = (IF ret[t].fn = "SharedGuard_spin" THEN 1 ELSE 0)
         /\ unique[t] = (IF ret[t].fn = "spin_borrow_mut" THEN 1 ELSE 0)
         /\ uguards[t] = (IF ret[t].fn = "UniqueGuard_spin" THEN 1 ELSE 0)

\* The hint after one more failed attempt, told from the hints so far.
C14_Hinted(t) ==
  hints'[t] =
    IF hints[t].spin_loop < SPIN_COUNT
      THEN [hints[t] EXCEPT !.spin_loop = @ + 1]
    ELSE [hints[t] EXCEPT !.yield_now = IF @ < 2 THEN @ + 1 ELSE @]

\* What the attempts of the spin call of t do: a spin call returns only in
\* an attempt that succeeded, the attempt that succeeds ends the call, and
\* the attempt that fails is followed by a hint and the next attempt.
C14_SpinStep(t) ==
  /\ ret'[t].val = "returned" /\ ret[t] # ret'[t] =>
       \/ /\ SpinAttempt(t)
          /\ ~ExclusiveBit(word)
          /\ word' = (word + 1) % 2 ^ W
          /\ ret'[t].fn = call[t]
       \/ /\ SpinAttemptMut(t)
          /\ word = 0
          /\ word' = 2 ^ (W - 1)
          /\ ret'[t].fn = call[t]
  /\ SpinAttempt(t) =>
       /\ ~ExclusiveBit(word) /\ CountBits(word) # 2 ^ (W - 1) - 1 =>
            pc'[t] = "idle" /\ ret'[t] = Ret(call[t], "returned")
       /\ ExclusiveBit(word) /\ CountBits(word) # 2 ^ (W - 1) - 1 =>
            pc'[t] = "borrow_undo" /\ ret'[t] = NoRet
       /\ hints'[t] = hints[t]
  /\ SpinRetry(t) =>
       /\ pc'[t] = "spin"
       /\ word' = (word + 2 ^ W - 1) % 2 ^ W
       /\ C14_Hinted(t)
  /\ SpinAttemptMut(t) =>
       /\ word = 0 =>
            pc'[t] = "idle" /\ ret'[t] = Ret(call[t], "returned")
            /\ hints'[t] = hints[t]
       /\ word # 0 =>
            pc'[t] = "spin" /\ ret'[t] = NoRet /\ word' = word
            /\ C14_Hinted(t)

\* C14: a spin function returns only in an attempt that returned true, the
\* first one that does, and its caller then holds exactly one borrow of the
\* kind asked for; each failed attempt of the first SPIN_COUNT is followed
\* by a spin_loop hint, each later one by a yield_now.
C14_SpinPolicy ==
  /\ []C14_Policy
  /\ [][\A t \in Spinners : C14_SpinStep(t)]_vars

\* One thread's spin_borrow_mut has been through the first phase and has
\* yielded at least twice while another holds a guard from SharedGuard::spin.
C14_Witness ==
  \E t, u \in Spinners :
    /\ ret[u] = Ret("SharedGuard_spin", "returned")
    /\ sguards[u] = 1
    /\ pc[t] = "spin"
    /\ call[t] = "spin_borrow_mut"
    /\ hints[t] = [spin_loop |-> SPIN_COUNT, yield_now |-> 2]

\* What release_mut does to the word, and what a rollback finds in it.
C15_ReleaseMutStep(t) ==
  /\ release_mut(t) =>
       /\ CountBits(word') = CountBits(word)
       /\ ~ExclusiveBit(word')
       /\ NoPanic => ExclusiveBit(word) /\ CountBits(word) = InFlight
  /\ borrow_undo(t) =>
       /\ word > 0
       /\ NoPanic => CountBits(word) > 0 /\ word' = word - 1

\* C15: release_mut clears the exclusive bit and leaves every count bit as
\* it was, so the increments of the borrow() calls in flight stay in the
\* word, and the rollback of such a call never finds the word at zero.
C15_ReleaseMutFrame == [][\A t \in Workers : C15_ReleaseMutStep(t)]_vars

\* The exclusive borrow was released while two borrow() calls that saw it
\* were in flight: their increments are all the word holds.
C15_Witness ==
  /\ NoPanic
  /\ UniqueHeld = 0
  /\ SharedHeld = 0
  /\ InFlight = 2
  /\ word = 2

\* The debug assertions of a release step of t hold of the word it finds.
C16_AssertsHold(t) ==
  /\ release(t) => word # 0 /\ ~ExclusiveBit(word) /\ release_asserts(word)
  /\ release_mut(t) => ExclusiveBit(word) /\ release_mut_asserts(word)

\* C16: with fewer than 2^(W-1) threads, each releasing only what
\* it holds, release always finds the word nonzero with the exclusive bit
\* clear and release_mut always finds the exclusive bit set.
C16_AssertsNeverFail ==
  [][NumThreads < 2 ^ (W - 1) => \A t \in Workers : C16_AssertsHold(t)]_vars

\* The same until a borrow() call has panicked on overflow: until then the
\* assertions hold.
C16_AssertsHoldUntilOverflow ==
  [][NoPanic => \A t \in Workers : C16_AssertsHold(t)]_vars

\* In a build with debug assertions a thread has released one of its shared
\* borrows while a failed borrow() of another thread was in flight, and
\* nothing has panicked.
C16_ReleasedInFlight ==
  \E t \in Workers :
    /\ debug
    /\ NoPanic
    /\ pc[t] = "idle"
    /\ shared[t] = 1
    /\ ret[t] = NoRet
    /\ InFlight = 1
    /\ word = 2

\* C17: until a call overflows, the word is UNIQUE_MASK times the exclusive
\* borrows held (none or one), plus the shared borrows held, plus the
\* borrow() calls that incremented it, saw the exclusive bit and have not
\* rolled back; so with no call in flight shared_count is the number of
\* shared borrows held and is_borrowed is true iff a borrow is held.
C17_WordEncoding ==
  NoPanic =>
    /\ UniqueHeld \in {0, 1}
    /\ word = UNIQUE_MASK * UniqueHeld + SharedHeld + InFlight
    /\ InFlight = 0 =>
         /\ shared_count(word) = SharedHeld
         /\ is_borrowed(word) <=> SharedHeld + UniqueHeld > 0

\* Two shared borrows are held while a borrow() that saw an earlier
\* exclusive borrow is still in flight.
C17_Witness ==
  /\ NoPanic
  /\ UniqueHeld = 0
  /\ SharedHeld = 2
  /\ InFlight = 1
  /\ word = 3

\* A step of a shared operation of t leaves the exclusive bit as it was.
C18_SharedStepKeepsBit(t) ==
  borrow(t) \/ borrow_undo(t) \/ release(t) =>
    (ExclusiveBit(word') <=> ExclusiveBit(word))

\* C18: the exclusive bit is set only by a successful borrow_mut and cleared
\* only by release_mut: no step of borrow() (increment, rollback, overflow)
\* and no release() of a held borrow changes it, whatever the number of
\* threads.
C18_ExclusiveBitOwned ==
  [][\A t \in Crowd : C18_SharedStepKeepsBit(t)]_vars

\* The same until a borrow() call has panicked on overflow, in steps that
\* are not themselves the overflow.
C18_ExclusiveBitOwnedUntilOverflow ==
  [][NoPanic /\ NoPanic' => \A t \in Crowd : C18_SharedStepKeepsBit(t)]_vars

\* No thread holds a borrow and no call has panicked.
C19_Free == NoPanic /\ SharedHeld = 0 /\ UniqueHeld = 0

\* C19 as stated: whenever no thread holds a borrow a borrow_mut succeeds,
\* also with failed borrow() calls still in flight.
C19_NoSpuriousFailure ==
  [][\A t \in Callers :
       borrow_mut(t) /\ C19_Free => ret'[t] = Ret("borrow_mut", "true")]_vars

\* C19 as amended: when no thread holds a borrow, a borrow_mut succeeds iff
\* no failed borrow() call is in flight; with one in flight it returns false
\* and leaves the word as it was.
C19_FailsOnlyInFlight ==
  [][\A t \in Callers :
       borrow_mut(t) /\ C19_Free =>
         /\ ret'[t] = Ret("borrow_mut", "true") <=> InFlight = 0
         /\ InFlight > 0 =>
              ret'[t] = Ret("borrow_mut", "false") /\ word' = word]_vars

\* The step just taken is a borrow_mut that returned false on a word that
\* held nothing but the increment of a borrow() call in flight.
C19_Witness ==
  /\ C19_Free
  /\ InFlight = 1
  /\ last.op = "borrow_mut"
  /\ last.ret = "false"
  /\ last.pre = 1
  /\ word = 1

\* The caller is inside the spin function for a shared, for an exclusive
\* borrow; it has returned from it holding the borrow.
C20_PendingShared == pc[Caller] \in {"spin", "borrow_undo"} /\ call[Caller] \in SpinShared
C20_PendingUnique == pc[Caller] = "spin" /\ call[Caller] \in SpinUnique
C20_ReturnedShared ==
  ret[Caller] = Ret("spin_borrow", "returned") /\ shared[Caller] = 1
C20_ReturnedUnique ==
  ret[Caller] = Ret("spin_borrow_mut", "returned") /\ unique[Caller] = 1

\* The other threads hold nothing and are in no call.
C20_OthersQuiet ==
  \A u \in Others : pc[u] = "idle" /\ shared[u] + unique[u] = 0

\* Whatever the other threads do, a pending spin_borrow_mut returns.
C20_UniqueSpinAlwaysReturns == C20_PendingUnique ~> C20_ReturnedUnique

\* C20: under weak fairness, if from some time on the other threads hold
\* nothing, have rolled back and acquire nothing more, a pending
\* spin_borrow and a pending spin_borrow_mut each return holding the
\* borrow asked for.
C20_SpinLiveness ==
  <>[]C20_OthersQuiet =>
    /\ C20_PendingShared ~> C20_ReturnedShared
    /\ C20_PendingUnique ~> C20_ReturnedUnique

\* The caller's spin_borrow_mut has returned after it had to yield, and the
\* other threads are quiet.
C20_Witness ==
  /\ C20_ReturnedUnique
  /\ hints[Caller].yield_now > 0
  /\ C20_OthersQuiet
  /\ word = UNIQUE_MASK
====
